---- MODULE Spec2Model ----
(***************************************************************************)
(* is-agentic-tui: the detector registry, the two-pass resolution policy,  *)
(* the module-level cache and the three public query operations of         *)
(* src/src/index.ts (current revision, lines 660-1158).                    *)
(*                                                                         *)
(* Strings are TLA+ strings; template literals are string concatenation,   *)
(* endsWith / includes are computed on the characters.  process.env is a   *)
(* function whose domain is the set of variables that are set, so          *)
(* `process.env[k] !== undefined` is `k \in DOMAIN env`.                   *)
(***************************************************************************)
EXTENDS FiniteSets, Integers, Sequences, TLC

VARIABLES
    registry,      \* the `detectors` array the module was loaded with
    loaded,        \* module initialisation: "pending", "ok" or "threw"
    env,           \* process.env restricted to the recognised variables
    ancestors,     \* what getAncestorProcessNames() returns when invoked now
    cachedResult,  \* the module-level cache slot
    proc,          \* the platform, parent pid and behaviour of ps, where drawn
    last           \* observation of the most recent operation

vars == <<registry, loaded, env, ancestors, cachedResult, proc, last>>

----------------------------------------------------------------------------
(* Bounds *)

MaxInputSize == 3      \* variables set plus ancestor entries of a drawn input
MaxLiveVars == 1       \* variables set at once while the environment changes
MaxLiveAncestors == 1  \* length of the ancestor list while it changes
MaxRegistry == 3       \* length of a drawn detectors array
MaxPid == 3            \* largest process id of a drawn process table

----------------------------------------------------------------------------
(* Values *)

\* cachedResult: undefined = not yet computed (index.ts:679-680)
Undefined == [kind |-> "undefined"]

\* null: a detector found nothing / no agentic TUI detected
Null == [kind |-> "null"]

\* interface DetectionResult
DetectionResult(t, c, s) ==
    [kind |-> "result", tool |-> t, confidence |-> c, signals |-> s]

\* type AgenticTui
AgenticTui ==
    {"claude-code", "cursor-agent", "gemini-cli", "aider", "codex", "cline",
     "kiro-cli", "opencode", "github-copilot-cli", "unknown"}

\* String.prototype.endsWith
endsWith(s, suffix) ==
    /\ Len(s) >= Len(suffix)
    /\ SubSeq(s, Len(s) - Len(suffix) + 1, Len(s)) = suffix

\* String.prototype.includes
includes(s, sub) ==
    \E i \in 1..(Len(s) - Len(sub) + 1) : SubSeq(s, i, i + Len(sub) - 1) = sub

\* Array.prototype.find over the predicate's values on the elements: the index
\* of the first element for which the predicate holds, 0 if there is none
find(matches) ==
    IF \E i \in 1..Len(matches) : matches[i]
    THEN CHOOSE i \in 1..Len(matches) :
            matches[i] /\ \A j \in 1..(i - 1) : ~matches[j]
    ELSE 0

\* Array.prototype.indexOf, 1-based; -1 when absent
indexOf(arr, x) ==
    IF \E i \in 1..Len(arr) : arr[i] = x
    THEN CHOOSE i \in 1..Len(arr) :
            arr[i] = x /\ \A j \in 1..(i - 1) : arr[j] # x
    ELSE -1

\* process.env[k] !== undefined
Has(e, k) == k \in DOMAIN e

\* process.env[k] === v
Is(e, k, v) == Has(e, k) /\ e[k] = v

----------------------------------------------------------------------------
(* getAncestorProcessNames: the ps walk *)

\* getAncestorProcessNames(maxDepth = 10)
DefaultMaxDepth == 10

\* \s of the regular expression and of String.prototype.trim, on one character
isSpace(c) == c \in {" ", "\t", "\n", "\r", "\f"}

\* \d of the regular expression, on one character
isDigit(c) == c \in {"0", "1", "2", "3", "4", "5", "6", "7", "8", "9"}

\* a line terminator, which `.` does not match
isLineTerminator(c) == c \in {"\n", "\r"}

\* the character of s at position i, as a one-character string
charAt(s, i) == SubSeq(s, i, i)

\* the number of white-space characters at the end of s, from position i back
RECURSIVE trailingSpace(_, _)
trailingSpace(s, i) ==
    IF i >= 1 /\ isSpace(charAt(s, i)) THEN 1 + trailingSpace(s, i - 1) ELSE 0

\* the length of the longest run of characters from position i on that are
\* digits (digits = TRUE) or white space (digits = FALSE)
RECURSIVE runLength(_, _, _)
runLength(s, i, digits) ==
    IF i > Len(s) THEN 0
    ELSE IF (IF digits THEN isDigit(charAt(s, i)) ELSE isSpace(charAt(s, i)))
    THEN 1 + runLength(s, i + 1, digits)
    ELSE 0

\* String.prototype.trim
trim(s) ==
    IF runLength(s, 1, FALSE) = Len(s)
    THEN ""
    ELSE SubSeq(s, runLength(s, 1, FALSE) + 1, Len(s) - trailingSpace(s, Len(s)))

\* the groups of /^\s*(\d+)\s+(.+)$/ on s, given the lengths of the leading
\* white space, of the digits after it and of the white space after those
regexGroups(s, lead, nd, ns) ==
    IF /\ nd > 0
       /\ ns > 0
       /\ lead + nd + ns < Len(s)
       /\ \A i \in (lead + nd + ns + 1)..Len(s) : ~isLineTerminator(charAt(s, i))
    THEN [matched |-> TRUE,
          ppidStr |-> SubSeq(s, lead + 1, lead + nd),
          commStr |-> SubSeq(s, lead + nd + ns + 1, Len(s))]
    ELSE [matched |-> FALSE, ppidStr |-> "", commStr |-> ""]

regexAfterLead(s, lead) ==
    regexGroups(s, lead, runLength(s, lead + 1, TRUE),
                runLength(s, lead + 1 + runLength(s, lead + 1, TRUE), FALSE))

\* /^\s*(\d+)\s+(.+)$/.exec(output)
regexExec(s) == regexAfterLead(s, runLength(s, 1, FALSE))

\* parseInt(ppidStr, 10) on a string of digits
RECURSIVE parseInt(_)
parseInt(d) ==
    IF Len(d) = 0 THEN 0
    ELSE 10 * parseInt(SubSeq(d, 1, Len(d) - 1))
         + (CHOOSE v \in 0..9 : charAt("0123456789", v + 1) = charAt(d, Len(d)))

\* what execFileSync("ps", [..., String(pid)]) does: it throws (non-zero exit,
\* ps missing, timeout) or returns ps's standard output
PsThrows == [kind |-> "throws", text |-> ""]

PsPrints(text) == [kind |-> "prints", text |-> text]

\* ps exits non-zero for a pid that is not running
execFileSync(ps, pid) == IF pid \in DOMAIN ps THEN ps[pid] ELSE PsThrows

\* the loop of getAncestorProcessNames from iteration i on; acc carries the
\* names pushed, the ps lookups made and whether an exception has escaped.
\* walkParsed is the part of the body after the regular expression has run,
\* walkStep the part after execFileSync has returned or thrown.
RECURSIVE walk(_, _, _, _, _)
walkParsed(ps, i, maxDepth, acc, match) ==
    IF ~match.matched
    THEN acc
    ELSE walk(ps, parseInt(match.ppidStr), i + 1, maxDepth,
              [acc EXCEPT !.names = Append(@, trim(match.commStr))])

\* the loop body without its try/catch
walkStepNoCatch(ps, i, maxDepth, acc, out) ==
    IF out.kind = "throws"
    THEN [acc EXCEPT !.threw = TRUE]
    ELSE IF trim(out.text) = ""
    THEN acc
    ELSE walkParsed(ps, i, maxDepth, acc, regexExec(trim(out.text)))

walkStep(ps, i, maxDepth, acc, out) ==
    IF out.kind = "throws"
    THEN acc
    ELSE IF trim(out.text) = ""
    THEN acc
    ELSE walkParsed(ps, i, maxDepth, acc, regexExec(trim(out.text)))

\* the loop running while `i <= maxDepth`
walkInclusive(ps, pid, i, maxDepth, acc) ==
    IF i > maxDepth \/ pid <= 1
    THEN acc
    ELSE walkStep(ps, i, maxDepth, [acc EXCEPT !.lookups = @ + 1],
                  execFileSync(ps, pid))

\* the loop without its `pid <= 1` test
walkNoPidBoundary(ps, pid, i, maxDepth, acc) ==
    IF i >= maxDepth
    THEN acc
    ELSE walkStep(ps, i, maxDepth, [acc EXCEPT !.lookups = @ + 1],
                  execFileSync(ps, pid))

walk(ps, pid, i, maxDepth, acc) ==
    IF i >= maxDepth \/ pid <= 1
    THEN acc
    ELSE walkStep(ps, i, maxDepth, [acc EXCEPT !.lookups = @ + 1],
                  execFileSync(ps, pid))

\* getAncestorProcessNames without its win32 test
getAncestorProcessNamesNoPlatformTest(p, maxDepth) ==
    walk(p.ps, p.ppid, 0, maxDepth,
         [names |-> <<>>, lookups |-> 0, threw |-> FALSE])

\* getAncestorProcessNames(maxDepth) in a process p = [platform, ppid, ps]
getAncestorProcessNames(p, maxDepth) ==
    IF p.platform = "win32"
    THEN [names |-> <<>>, lookups |-> 0, threw |-> FALSE]
    ELSE walk(p.ps, p.ppid, 0, maxDepth,
              [names |-> <<>>, lookups |-> 0, threw |-> FALSE])

----------------------------------------------------------------------------
(* Detectors *)

\* detectClaudeCode pushing the CLAUDE_PATH signal first
detectClaudeCodePathFirst(e) ==
    IF Is(e, "CLAUDECODE", "1")
    THEN DetectionResult("claude-code", "high", <<"CLAUDECODE=1">>)
    ELSE IF Has(e, "CLAUDE_CODE_ENTRYPOINT")
            \/ (Has(e, "CLAUDE_PATH") /\ includes(e["CLAUDE_PATH"], "claude-code"))
    THEN DetectionResult("claude-code", "medium",
            (IF Has(e, "CLAUDE_PATH") /\ includes(e["CLAUDE_PATH"], "claude-code")
             THEN <<"CLAUDE_PATH contains \"claude-code\"">>
             ELSE <<>>) \o
            (IF Has(e, "CLAUDE_CODE_ENTRYPOINT")
             THEN <<"CLAUDE_CODE_ENTRYPOINT=" \o e["CLAUDE_CODE_ENTRYPOINT"]>>
             ELSE <<>>))
    ELSE Null

\* detectClaudeCode without the `signals.length > 0` test
detectClaudeCodeAlwaysMedium(e) ==
    IF Is(e, "CLAUDECODE", "1")
    THEN DetectionResult("claude-code", "high", <<"CLAUDECODE=1">>)
    ELSE DetectionResult("claude-code", "medium",
            (IF Has(e, "CLAUDE_CODE_ENTRYPOINT")
             THEN <<"CLAUDE_CODE_ENTRYPOINT=" \o e["CLAUDE_CODE_ENTRYPOINT"]>>
             ELSE <<>>) \o
            (IF Has(e, "CLAUDE_PATH") /\ includes(e["CLAUDE_PATH"], "claude-code")
             THEN <<"CLAUDE_PATH contains \"claude-code\"">>
             ELSE <<>>))

detectClaudeCode(e) ==
    IF Is(e, "CLAUDECODE", "1")
    THEN DetectionResult("claude-code", "high", <<"CLAUDECODE=1">>)
    ELSE LET s1 == IF Has(e, "CLAUDE_CODE_ENTRYPOINT")
                   THEN <<"CLAUDE_CODE_ENTRYPOINT=" \o e["CLAUDE_CODE_ENTRYPOINT"]>>
                   ELSE <<>>
             s2 == IF Has(e, "CLAUDE_PATH") /\ includes(e["CLAUDE_PATH"], "claude-code")
                   THEN <<"CLAUDE_PATH contains \"claude-code\"">>
                   ELSE <<>>
             signals == s1 \o s2
         IN  IF Len(signals) > 0
             THEN DetectionResult("claude-code", "medium", signals)
             ELSE Null

detectCursorAgent(e) ==
    IF Is(e, "CURSOR_AGENT", "1")
    THEN DetectionResult("cursor-agent", "high", <<"CURSOR_AGENT=1">>)
    ELSE IF Is(e, "CURSOR_INVOKED_AS", "cursor-agent")
    THEN DetectionResult("cursor-agent", "medium", <<"CURSOR_INVOKED_AS=cursor-agent">>)
    ELSE Null

\* detectGeminiCli reporting the placeholder identifier
detectGeminiCliUnknown(e) ==
    IF Is(e, "GEMINI_CLI", "1")
    THEN DetectionResult("unknown", "high", <<"GEMINI_CLI=1">>)
    ELSE Null

detectGeminiCli(e) ==
    IF Is(e, "GEMINI_CLI", "1")
    THEN DetectionResult("gemini-cli", "high", <<"GEMINI_CLI=1">>)
    ELSE Null

\* detectAider accepting any OR_SITE_URL that starts with the expected URL
detectAiderSiteUrlPrefix(e) ==
    IF Is(e, "AIDER", "1")
    THEN DetectionResult("aider", "high", <<"AIDER=1">>)
    ELSE IF Is(e, "OR_APP_NAME", "Aider")
    THEN DetectionResult("aider", "high",
            <<"OR_APP_NAME=Aider">> \o
            (IF Has(e, "OR_SITE_URL")
                /\ SubSeq(e["OR_SITE_URL"], 1, 18) = "https://aider.chat"
             THEN <<"OR_SITE_URL=https://aider.chat">>
             ELSE <<>>))
    ELSE Null

\* detectAider reporting OR_APP_NAME=Aider at medium
detectAiderAppNameMedium(e) ==
    IF Is(e, "AIDER", "1")
    THEN DetectionResult("aider", "high", <<"AIDER=1">>)
    ELSE IF Is(e, "OR_APP_NAME", "Aider")
    THEN DetectionResult("aider", "medium",
            <<"OR_APP_NAME=Aider">> \o
            (IF Is(e, "OR_SITE_URL", "https://aider.chat")
             THEN <<"OR_SITE_URL=https://aider.chat">>
             ELSE <<>>))
    ELSE Null

detectAider(e) ==
    IF Is(e, "AIDER", "1")
    THEN DetectionResult("aider", "high", <<"AIDER=1">>)
    ELSE IF Is(e, "OR_APP_NAME", "Aider")
    THEN DetectionResult("aider", "high",
            <<"OR_APP_NAME=Aider">> \o
            (IF Is(e, "OR_SITE_URL", "https://aider.chat")
             THEN <<"OR_SITE_URL=https://aider.chat">>
             ELSE <<>>))
    ELSE Null

\* detectCodex testing the variables for truthiness
detectCodexTruthy(e) ==
    IF Has(e, "CODEX_SANDBOX") /\ e["CODEX_SANDBOX"] # ""
    THEN DetectionResult("codex", "high", <<"CODEX_SANDBOX=" \o e["CODEX_SANDBOX"]>>)
    ELSE IF Has(e, "CODEX_THREAD_ID") /\ e["CODEX_THREAD_ID"] # ""
    THEN DetectionResult("codex", "medium", <<"CODEX_THREAD_ID=" \o e["CODEX_THREAD_ID"]>>)
    ELSE Null

detectCodex(e) ==
    IF Has(e, "CODEX_SANDBOX")
    THEN DetectionResult("codex", "high", <<"CODEX_SANDBOX=" \o e["CODEX_SANDBOX"]>>)
    ELSE IF Has(e, "CODEX_THREAD_ID")
    THEN DetectionResult("codex", "medium", <<"CODEX_THREAD_ID=" \o e["CODEX_THREAD_ID"]>>)
    ELSE Null

\* detectCline testing CLINE_ACTIVE for truthiness
detectClineTruthy(e) ==
    IF Has(e, "CLINE_ACTIVE") /\ e["CLINE_ACTIVE"] # ""
    THEN DetectionResult("cline", "high", <<"CLINE_ACTIVE=true">>)
    ELSE Null

detectCline(e) ==
    IF Is(e, "CLINE_ACTIVE", "true")
    THEN DetectionResult("cline", "high", <<"CLINE_ACTIVE=true">>)
    ELSE Null

\* detectOpencode testing `process.env.OPENCODE !== "0"`
detectOpencodeUnlessZero(e) ==
    IF ~Is(e, "OPENCODE", "0")
    THEN DetectionResult("opencode", "high", <<"OPENCODE=1">>)
    ELSE Null

detectOpencode(e) ==
    IF Is(e, "OPENCODE", "1")
    THEN DetectionResult("opencode", "high", <<"OPENCODE=1">>)
    ELSE Null

\* isKiroAncestor with the suffixes lacking their path separator
isKiroAncestorAnySuffix(name) ==
    \/ name = "kiro-cli"
    \/ endsWith(name, "kiro-cli")
    \/ name = "q"
    \/ endsWith(name, "q")

\* the predicate of ancestors.find in detectKiroCli
isKiroAncestor(name) ==
    \/ name = "kiro-cli"
    \/ endsWith(name, "/kiro-cli")
    \/ name = "q"
    \/ endsWith(name, "/q")

\* isCopilotAncestor without the path-suffix alternative
isCopilotAncestorExactOnly(name) == name = "copilot"

\* the predicate of ancestors.find in detectGitHubCopilotCli
isCopilotAncestor(name) ==
    name = "copilot" \/ endsWith(name, "/copilot")

\* detectKiroCli without the medium fallback on Q_TERM alone
detectKiroCliNoFallback(e, anc) ==
    IF Has(e, "Q_TERM")
    THEN LET kiroAncestor == find([i \in 1..Len(anc) |-> isKiroAncestor(anc[i])])
         IN  IF kiroAncestor # 0
             THEN [result |-> DetectionResult("kiro-cli", "high",
                        <<"Q_TERM=" \o e["Q_TERM"],
                          "ancestor process: " \o anc[kiroAncestor]>>),
                   walks |-> 1]
             ELSE [result |-> Null, walks |-> 1]
    ELSE IF Has(e, "QTERM_SESSION_ID")
    THEN [result |-> DetectionResult("kiro-cli", "medium",
                        <<"QTERM_SESSION_ID=" \o e["QTERM_SESSION_ID"]>>),
          walks |-> 0]
    ELSE [result |-> Null, walks |-> 0]

\* `walks` is the number of getAncestorProcessNames() invocations made;
\* `anc` is the list that invocation returns.
detectKiroCli(e, anc) ==
    IF Has(e, "Q_TERM")
    THEN LET signals == <<"Q_TERM=" \o e["Q_TERM"]>>
             kiroAncestor == find([i \in 1..Len(anc) |-> isKiroAncestor(anc[i])])
         IN  IF kiroAncestor # 0 /\ anc[kiroAncestor] # ""
             THEN [result |-> DetectionResult("kiro-cli", "high",
                        signals \o <<"ancestor process: " \o anc[kiroAncestor]>>),
                   walks |-> 1]
             ELSE [result |-> DetectionResult("kiro-cli", "medium", signals),
                   walks |-> 1]
    ELSE IF Has(e, "QTERM_SESSION_ID")
    THEN [result |-> DetectionResult("kiro-cli", "medium",
                        <<"QTERM_SESSION_ID=" \o e["QTERM_SESSION_ID"]>>),
          walks |-> 0]
    ELSE [result |-> Null, walks |-> 0]

\* detectGitHubCopilotCli with the Q_TERM test placed after the walk
detectGitHubCopilotCliWalkFirst(e, anc) ==
    LET copilotAncestor == find([i \in 1..Len(anc) |-> isCopilotAncestor(anc[i])])
    IN  IF ~Has(e, "Q_TERM")
        THEN [result |-> Null, walks |-> 1]
        ELSE IF copilotAncestor # 0
        THEN [result |-> DetectionResult("github-copilot-cli", "high",
                    <<"ancestor process: " \o anc[copilotAncestor],
                      "Q_TERM=" \o e["Q_TERM"]>>),
              walks |-> 1]
        ELSE [result |-> Null, walks |-> 1]

\* detectGitHubCopilotCli reporting an ancestor match at medium confidence
detectGitHubCopilotCliMedium(e, anc) ==
    IF ~Has(e, "Q_TERM")
    THEN [result |-> Null, walks |-> 0]
    ELSE LET copilotAncestor == find([i \in 1..Len(anc) |-> isCopilotAncestor(anc[i])])
         IN  IF copilotAncestor # 0 /\ anc[copilotAncestor] # ""
             THEN [result |-> DetectionResult("github-copilot-cli", "medium",
                        <<"ancestor process: " \o anc[copilotAncestor],
                          "Q_TERM=" \o e["Q_TERM"]>>),
                   walks |-> 1]
             ELSE [result |-> Null, walks |-> 1]

detectGitHubCopilotCli(e, anc) ==
    IF ~Has(e, "Q_TERM")
    THEN [result |-> Null, walks |-> 0]
    ELSE LET copilotAncestor == find([i \in 1..Len(anc) |-> isCopilotAncestor(anc[i])])
         IN  IF copilotAncestor # 0 /\ anc[copilotAncestor] # ""
             THEN [result |-> DetectionResult("github-copilot-cli", "high",
                        <<"ancestor process: " \o anc[copilotAncestor],
                          "Q_TERM=" \o e["Q_TERM"]>>),
                   walks |-> 1]
             ELSE [result |-> Null, walks |-> 1]

\* The earlier revision of the detector, which walks the ancestor chain
\* whether or not Q_TERM is set.
detectGitHubCopilotCliAlwaysWalks(e, anc) ==
    LET copilotAncestor == find([i \in 1..Len(anc) |-> isCopilotAncestor(anc[i])])
    IN  IF copilotAncestor # 0 /\ anc[copilotAncestor] # ""
        THEN [result |-> DetectionResult("github-copilot-cli",
                    IF Has(e, "Q_TERM") THEN "high" ELSE "medium",
                    <<"ancestor process: " \o anc[copilotAncestor]>> \o
                    (IF Has(e, "Q_TERM") THEN <<"Q_TERM=" \o e["Q_TERM"]>> ELSE <<>>)),
              walks |-> 1]
        ELSE [result |-> Null, walks |-> 1]

\* const detectors = [...]
detectors ==
    <<"detectClaudeCode", "detectCursorAgent", "detectGeminiCli", "detectAider",
      "detectCodex", "detectCline", "detectGitHubCopilotCli", "detectKiroCli",
      "detectOpencode">>

\* detect(): the call of one registry entry
detect(d, e, anc) ==
    CASE d = "detectClaudeCode" -> [result |-> detectClaudeCode(e), walks |-> 0]
      [] d = "detectCursorAgent" -> [result |-> detectCursorAgent(e), walks |-> 0]
      [] d = "detectGeminiCli" -> [result |-> detectGeminiCli(e), walks |-> 0]
      [] d = "detectAider" -> [result |-> detectAider(e), walks |-> 0]
      [] d = "detectCodex" -> [result |-> detectCodex(e), walks |-> 0]
      [] d = "detectCline" -> [result |-> detectCline(e), walks |-> 0]
      [] d = "detectGitHubCopilotCli" -> detectGitHubCopilotCli(e, anc)
      [] d = "detectGitHubCopilotCliAlwaysWalks" ->
            detectGitHubCopilotCliAlwaysWalks(e, anc)
      [] d = "detectKiroCli" -> detectKiroCli(e, anc)
      [] d = "detectOpencode" -> [result |-> detectOpencode(e), walks |-> 0]

----------------------------------------------------------------------------
(* Resolution policy and cache *)

\* detected?.confidence === "high"
isHigh(r) == r # Null /\ r.confidence = "high"

\* detected !== null
notNull(r) == r # Null

\* One `for (const detect of detectors)` loop from entry i on, breaking at the
\* first high result (onlyHigh, first loop) or first non-null result (second).
\* acc carries the detectors invoked so far and the number of oracle
\* invocations so far; oracle[n] is what the n-th invocation of
\* getAncestorProcessNames() returns.  scanStep is the loop body, given what
\* detect() returned for entry i.
RECURSIVE scan(_, _, _, _, _, _)
\* the loop body without `break`: the remaining detectors are still called,
\* the first accepted result is kept
scanStepNoBreak(reg, e, oracle, i, acc, onlyHigh, detected) ==
    IF (IF onlyHigh THEN isHigh(detected.result) ELSE notNull(detected.result))
    THEN [result |-> detected.result,
          invoked |-> acc.invoked \o SubSeq(reg, i, Len(reg)),
          walks |-> acc.walks + detected.walks]
    ELSE scan(reg, e, oracle, i + 1,
              [invoked |-> Append(acc.invoked, reg[i]),
               walks |-> acc.walks + detected.walks],
              onlyHigh)

scanStep(reg, e, oracle, i, acc, onlyHigh, detected) ==
    IF (IF onlyHigh THEN isHigh(detected.result) ELSE notNull(detected.result))
    THEN [result |-> detected.result,
          invoked |-> Append(acc.invoked, reg[i]),
          walks |-> acc.walks + detected.walks]
    ELSE scan(reg, e, oracle, i + 1,
              [invoked |-> Append(acc.invoked, reg[i]),
               walks |-> acc.walks + detected.walks],
              onlyHigh)

scan(reg, e, oracle, i, acc, onlyHigh) ==
    IF i > Len(reg)
    THEN [result |-> Null, invoked |-> acc.invoked, walks |-> acc.walks]
    ELSE scanStep(reg, e, oracle, i, acc, onlyHigh,
                  detect(reg[i], e, oracle[acc.walks + 1]))

\* `if (result === null)` after the first loop: the second loop runs only then
secondPass(reg, e, oracle, pass1) ==
    IF pass1.result = Null
    THEN scan(reg, e, oracle, 1,
              [invoked |-> pass1.invoked, walks |-> pass1.walks], FALSE)
    ELSE pass1

\* freshDetection with the first loop missing: the first non-null result wins
\* whatever its confidence.
freshDetectionFirstMatch(reg, e, oracle) ==
    scan(reg, e, oracle, 1, [invoked |-> <<>>, walks |-> 0], FALSE)

\* The fresh detection of whichAgenticTui: first high, else first non-null.
freshDetection(reg, e, oracle) ==
    secondPass(reg, e, oracle,
               scan(reg, e, oracle, 1, [invoked |-> <<>>, walks |-> 0], TRUE))

\* `cachedResult = result; return result;`
cacheAndReturn(fresh) ==
    [ret |-> fresh.result, cache |-> fresh.result,
     invoked |-> fresh.invoked, walks |-> fresh.walks]

\* whichAgenticTui returning, on a forced call, what the slot held before
whichAgenticTuiReturnsStale(cache, reg, e, oracle, force) ==
    IF cache # Undefined /\ ~force
    THEN [ret |-> cache, cache |-> cache, invoked |-> <<>>, walks |-> 0]
    ELSE [cacheAndReturn(freshDetection(reg, e, oracle))
            EXCEPT !.ret = IF cache # Undefined THEN cache ELSE @]

\* whichAgenticTui without the `!options?.force` test
whichAgenticTuiIgnoresForce(cache, reg, e, oracle, force) ==
    IF cache # Undefined
    THEN [ret |-> cache, cache |-> cache, invoked |-> <<>>, walks |-> 0]
    ELSE cacheAndReturn(freshDetection(reg, e, oracle))

\* whichAgenticTui testing the cache slot for truthiness, so that a cached null
\* does not count as cached
whichAgenticTuiTruthy(cache, reg, e, oracle, force) ==
    IF cache # Undefined /\ cache # Null /\ ~force
    THEN [ret |-> cache, cache |-> cache, invoked |-> <<>>, walks |-> 0]
    ELSE cacheAndReturn(freshDetection(reg, e, oracle))

\* whichAgenticTui(options): the value returned, the cache slot afterwards,
\* the detectors invoked and the number of oracle invocations.
whichAgenticTui(cache, reg, e, oracle, force) ==
    IF cache # Undefined /\ ~force
    THEN [ret |-> cache, cache |-> cache, invoked |-> <<>>, walks |-> 0]
    ELSE cacheAndReturn(freshDetection(reg, e, oracle))

\* `whichAgenticTui(options) !== null`
notNullReturn(w) == [w EXCEPT !.ret = (w.ret # Null)]

\* isAgenticTui as `detectors.some((detect) => detect() !== null)`, which
\* neither reads nor writes the cache
isAgenticTuiUncached(cache, reg, e, oracle, force) ==
    [cacheAndReturn(freshDetectionFirstMatch(reg, e, oracle))
        EXCEPT !.ret = (@ # Null), !.cache = cache]

\* isAgenticTui(options)
isAgenticTui(cache, reg, e, oracle, force) ==
    notNullReturn(whichAgenticTui(cache, reg, e, oracle, force))

\* `result?.tool === tool`
toolReturn(w, tool) == [w EXCEPT !.ret = (w.ret # Null /\ w.ret.tool = tool)]

\* isSpecificAgenticTui(tool, options)
isSpecificAgenticTui(tool, cache, reg, e, oracle, force) ==
    toolReturn(whichAgenticTui(cache, reg, e, oracle, force), tool)

\* the guard without the `!== -1` tests
guardThrowsUnconditional(reg) ==
    indexOf(reg, "detectGitHubCopilotCli") >= indexOf(reg, "detectKiroCli")

\* The runtime guard after the detectors array: TRUE iff it throws.
guardThrows(reg) ==
    LET copilotIdx == indexOf(reg, "detectGitHubCopilotCli")
        kiroIdx == indexOf(reg, "detectKiroCli")
    IN  copilotIdx # -1 /\ kiroIdx # -1 /\ copilotIdx >= kiroIdx

----------------------------------------------------------------------------
(* Environments and ancestor lists *)

\* The recognised variables, each with the literal its detector expects (or a
\* typical value where presence alone counts) and one value that differs.
EnvTable ==
    [CLAUDECODE |-> <<"1", "true">>,
     CLAUDE_CODE_ENTRYPOINT |-> <<"cli", "">>,
     CLAUDE_PATH |-> <<"/opt/claude-code/bin", "/opt/claude/bin">>,
     CURSOR_AGENT |-> <<"1", "TRUE">>,
     CURSOR_INVOKED_AS |-> <<"cursor-agent", "cursor">>,
     GEMINI_CLI |-> <<"1", "2">>,
     AIDER |-> <<"1", "">>,
     OR_APP_NAME |-> <<"Aider", "aider">>,
     OR_SITE_URL |-> <<"https://aider.chat", "https://aider.chat/">>,
     CODEX_SANDBOX |-> <<"seatbelt", "">>,
     CODEX_THREAD_ID |-> <<"thread-uuid", "">>,
     CLINE_ACTIVE |-> <<"true", "1">>,
     Q_TERM |-> <<"1.24.1", "">>,
     QTERM_SESSION_ID |-> <<"session-uuid-123", "">>,
     OPENCODE |-> <<"1", "true">>]

EnvKeys == DOMAIN EnvTable

EnvValues(k) == {EnvTable[k][1], EnvTable[k][2]}

\* every environment over the keys ks with at most n variables set
EnvsOver(ks, n) ==
    UNION { { [k \in S |-> IF b[k] THEN EnvTable[k][1] ELSE EnvTable[k][2]] :
                b \in [S -> BOOLEAN] } :
            S \in {T \in SUBSET ks : Cardinality(T) <= n} }

AncestorNames ==
    {"mycopilot", "copilot", "/usr/local/bin/copilot", "kiro-cli", "q"}

\* every list over names of length at most n
ListsOver(names, n) == UNION { [1..m -> names] : m \in 0..n }

\* the keys and names that change while the cache lives
LiveKeys == {"CLAUDECODE", "CURSOR_INVOKED_AS", "Q_TERM"}

LiveNames == {"copilot", "kiro-cli"}

\* getAncestorProcessNames() returns `ancestors` at every invocation of one
\* synchronous evaluation
stableOracle(anc) == [n \in 1..(2 * Len(detectors) + 1) |-> anc]

----------------------------------------------------------------------------
(* Operations *)

\* What a caller observes of an operation: `ret` is the DetectionResult | null
\* whichAgenticTui returned, `answer` the boolean the two predicates returned,
\* `before` the cache slot the operation found.
Observation(op, force, tool, before, r) ==
    [op |-> op, force |-> force, tool |-> tool, before |-> before,
     threw |-> FALSE,
     ret |-> IF op = "whichAgenticTui" THEN r.ret ELSE Null,
     answer |-> IF op = "whichAgenticTui" THEN FALSE ELSE r.ret,
     invoked |-> r.invoked, walks |-> r.walks]

NoCall(op) ==
    [op |-> op, force |-> FALSE, tool |-> "", before |-> Undefined,
     threw |-> FALSE,
     ret |-> Null, answer |-> FALSE, invoked |-> <<>>, walks |-> 0]

\* the process table is not drawn: `ancestors` is the oracle's answer as given
NoProc == [platform |-> "any", ppid |-> 0, ps |-> <<>>]

\* an exception escapes getAncestorProcessNames() in the current process
oracleThrows ==
    proc # NoProc /\ getAncestorProcessNames(proc, DefaultMaxDepth).threw

\* The effect of a call that computed r: the cache slot and the observation.
\* No function on the call path catches, so an exception escaping an oracle
\* invocation leaves the operation before `cachedResult = result`.
Call(op, force, tool, r) ==
    /\ cachedResult' = IF r.walks > 0 /\ oracleThrows THEN cachedResult ELSE r.cache
    /\ last' = IF r.walks > 0 /\ oracleThrows
               THEN [NoCall(op) EXCEPT !.force = force, !.tool = tool,
                                       !.before = cachedResult, !.threw = TRUE]
               ELSE Observation(op, force, tool, cachedResult, r)
    /\ UNCHANGED <<registry, loaded, env, ancestors, proc>>

WhichAgenticTui(force) ==
    /\ loaded = "ok"
    /\ Call("whichAgenticTui", force, "",
            whichAgenticTui(cachedResult, registry, env,
                            stableOracle(ancestors), force))

IsAgenticTui(force) ==
    /\ loaded = "ok"
    /\ Call("isAgenticTui", force, "",
            isAgenticTui(cachedResult, registry, env,
                         stableOracle(ancestors), force))

IsSpecificAgenticTui(tool, force) ==
    /\ loaded = "ok"
    /\ Call("isSpecificAgenticTui", force, tool,
            isSpecificAgenticTui(tool, cachedResult, registry, env,
                                 stableOracle(ancestors), force))

\* clearCache storing null instead of undefined
ClearCacheToNull ==
    /\ loaded = "ok"
    /\ cachedResult' = Null
    /\ last' = [NoCall("clearCache") EXCEPT !.before = cachedResult]
    /\ UNCHANGED <<registry, loaded, env, ancestors, proc>>

\* clearCache()
ClearCache ==
    /\ loaded = "ok"
    /\ cachedResult' = Undefined
    /\ last' = [NoCall("clearCache") EXCEPT !.before = cachedResult]
    /\ UNCHANGED <<registry, loaded, env, ancestors, proc>>

\* whichAgenticTui(options) while the process tree changes under it: the n-th
\* invocation of getAncestorProcessNames() in this evaluation returns o[n],
\* the first one what the oracle returns now
WhichAgenticTuiAsTreeChanges(force, o) ==
    /\ loaded = "ok"
    /\ o[1] = ancestors
    /\ cachedResult' = whichAgenticTui(cachedResult, registry, env, o, force).cache
    /\ last' = Observation("whichAgenticTui", force, "", cachedResult,
                           whichAgenticTui(cachedResult, registry, env, o, force))
    /\ ancestors' = o[Len(o)]
    /\ UNCHANGED <<registry, loaded, env, proc>>

\* one detector called on its own, as whichAgenticTui's loops call it
Detect(d) ==
    /\ loaded = "ok"
    /\ last' = [NoCall(d) EXCEPT !.ret = detect(d, env, ancestors).result,
                                 !.invoked = <<d>>,
                                 !.walks = detect(d, env, ancestors).walks]
    /\ UNCHANGED <<registry, loaded, env, ancestors, cachedResult, proc>>

\* what a call of getAncestorProcessNames(maxDepth) that computed w shows:
\* the names returned, the ps lookups made, whether an exception escaped
WalkObservation(maxDepth, w) ==
    [NoCall("getAncestorProcessNames") EXCEPT
        !.ret = [kind |-> "names", maxDepth |-> maxDepth, names |-> w.names],
        !.walks = w.lookups,
        !.threw = w.threw]

\* the host program calls getAncestorProcessNames(maxDepth)
GetAncestorProcessNames(maxDepth) ==
    /\ loaded = "ok"
    /\ last' = WalkObservation(maxDepth, getAncestorProcessNames(proc, maxDepth))
    /\ UNCHANGED <<registry, loaded, env, ancestors, cachedResult, proc>>

\* the host program assigns process.env[k] = v
SetEnv(k, v) ==
    /\ Cardinality(DOMAIN env \cup {k}) <= MaxLiveVars
    /\ ~Is(env, k, v)
    /\ env' = [x \in DOMAIN env \cup {k} |-> IF x = k THEN v ELSE env[x]]
    /\ last' = NoCall("setEnv")
    /\ UNCHANGED <<registry, loaded, ancestors, cachedResult, proc>>

\* the host program deletes process.env[k]
DeleteEnv(k) ==
    /\ Has(env, k)
    /\ env' = [x \in DOMAIN env \ {k} |-> env[x]]
    /\ last' = NoCall("deleteEnv")
    /\ UNCHANGED <<registry, loaded, ancestors, cachedResult, proc>>

\* the process tree changes: the oracle would now return anc
SetAncestors(anc) ==
    /\ anc # ancestors
    /\ ancestors' = anc
    /\ last' = NoCall("setAncestors")
    /\ UNCHANGED <<registry, loaded, env, cachedResult, proc>>

\* module initialisation: the guard either throws or lets the module load
LoadModule ==
    /\ loaded = "pending"
    /\ loaded' = IF guardThrows(registry) THEN "threw" ELSE "ok"
    /\ last' = NoCall("loadModule")
    /\ UNCHANGED <<registry, env, ancestors, cachedResult, proc>>

----------------------------------------------------------------------------
(* Specifications *)

\* the state right after the shipped module has been imported
InitModule ==
    /\ registry = detectors
    /\ loaded = IF guardThrows(detectors) THEN "threw" ELSE "ok"
    /\ cachedResult = Undefined
    /\ last = NoCall("none")

\* Spec: the cache over a changing environment and process tree
Init ==
    /\ InitModule
    /\ proc = NoProc
    /\ env \in EnvsOver(LiveKeys, MaxLiveVars)
    /\ ancestors \in ListsOver(LiveNames, MaxLiveAncestors)

Next ==
    \/ \E force \in BOOLEAN : WhichAgenticTui(force)
    \/ \E force \in BOOLEAN : IsAgenticTui(force)
    \/ \E tool \in AgenticTui, force \in BOOLEAN : IsSpecificAgenticTui(tool, force)
    \/ ClearCache
    \/ \E k \in LiveKeys : \E v \in EnvValues(k) : SetEnv(k, v)
    \/ \E k \in LiveKeys : DeleteEnv(k)
    \/ \E anc \in ListsOver(LiveNames, MaxLiveAncestors) : SetAncestors(anc)

Spec == Init /\ [][Next]_vars

\* SpecFresh: one call from the empty cache, over every drawn environment and
\* ancestor list
InitFresh ==
    /\ InitModule
    /\ proc = NoProc
    /\ env \in EnvsOver(EnvKeys, MaxInputSize)
    /\ ancestors \in ListsOver(AncestorNames, MaxInputSize - Cardinality(DOMAIN env))

NextFresh ==
    \/ \E force \in BOOLEAN :
         cachedResult = Undefined /\ WhichAgenticTui(force)
    \/ \E force \in BOOLEAN :
         cachedResult = Undefined /\ IsAgenticTui(force)
    \/ \E tool \in AgenticTui, force \in BOOLEAN :
         cachedResult = Undefined /\ IsSpecificAgenticTui(tool, force)

SpecFresh == InitFresh /\ [][NextFresh]_vars

\* SpecGuard: module initialisation over drawn detectors arrays, then calls
GuardDetectors == {"detectClaudeCode", "detectGitHubCopilotCli", "detectKiroCli"}

Registries == {detectors} \cup ListsOver(GuardDetectors, MaxRegistry)

InitGuard ==
    /\ registry \in Registries
    /\ loaded = "pending"
    /\ cachedResult = Undefined
    /\ proc = NoProc
    /\ last = NoCall("none")
    /\ env \in EnvsOver({"Q_TERM"}, 1)
    /\ ancestors \in ListsOver(LiveNames, 1)

NextGuard ==
    \/ LoadModule
    \/ \E force \in BOOLEAN : WhichAgenticTui(force)
    \/ \E force \in BOOLEAN : IsAgenticTui(force)
    \/ \E tool \in AgenticTui, force \in BOOLEAN : IsSpecificAgenticTui(tool, force)
    \/ ClearCache

SpecGuard == InitGuard /\ [][NextGuard]_vars

\* SpecPs: one call from the empty cache in a drawn process: platform, parent
\* pid and, for each process id, what ps does when asked about it
Pids == 2..MaxPid

PsComms == {"copilot", "kiro-cli"}

\* the line ps prints for `-o ppid=,comm=`
PsLine(pp, comm) == "  " \o ToString(pp) \o " " \o comm \o "\n"

PsOutcomes ==
    {PsThrows, PsPrints(""), PsPrints("  \n"), PsPrints("- copilot\n")}
    \cup {PsPrints(PsLine(pp, comm)) : pp \in 1..MaxPid, comm \in PsComms}

PsTools == {"github-copilot-cli", "kiro-cli"}

\* on win32 there is no ps to run: every lookup would throw
Procs ==
    [platform : {"linux"}, ppid : 1..MaxPid, ps : [Pids -> PsOutcomes]]
    \cup [platform : {"win32"}, ppid : 1..MaxPid, ps : {[pid \in Pids |-> PsThrows]}]

InitPs ==
    /\ InitModule
    /\ proc \in Procs
    /\ env \in EnvsOver({"Q_TERM"}, 1)
    /\ ancestors = getAncestorProcessNames(proc, DefaultMaxDepth).names

NextPs ==
    \/ cachedResult = Undefined /\ WhichAgenticTui(FALSE)
    \/ cachedResult = Undefined /\ IsAgenticTui(FALSE)
    \/ \E tool \in PsTools :
         cachedResult = Undefined /\ IsSpecificAgenticTui(tool, FALSE)

SpecPs == InitPs /\ [][NextPs]_vars

\* SpecTreeChanges: evaluations during which the oracle's answer changes
\* between one invocation and the next
TreeSnapshots == {<<>>, <<"copilot">>, <<"kiro-cli">>}

\* two detectors consult the oracle and each runs at most once in each loop;
\* the loops read one entry past the invocations made
WalksPerEvaluation == 4

ChangingOracles == [1..(WalksPerEvaluation + 1) -> TreeSnapshots]

InitTreeChanges ==
    /\ InitModule
    /\ proc = NoProc
    /\ env \in EnvsOver({"Q_TERM", "CLAUDE_CODE_ENTRYPOINT"}, 2)
    /\ ancestors \in TreeSnapshots

NextTreeChanges ==
    \/ \E force \in BOOLEAN, o \in ChangingOracles :
         WhichAgenticTuiAsTreeChanges(force, o)
    \/ ClearCache

SpecTreeChanges == InitTreeChanges /\ [][NextTreeChanges]_vars

\* SpecDetectors: one detector called once, over every drawn environment
\* without ancestors and over the Q_TERM environments with drawn ancestor lists
MatchNames ==
    {"copilot", "/usr/local/bin/copilot", "mycopilot", "copilot-wrapper",
     "not-copilot", "kiro-cli", "/usr/bin/kiro-cli", "q", "/opt/q", "seq"}

InitDetectors ==
    /\ InitModule
    /\ proc = NoProc
    /\ \/ /\ env \in EnvsOver(EnvKeys, MaxInputSize)
          /\ ancestors = <<>>
       \/ /\ env \in EnvsOver({"Q_TERM", "QTERM_SESSION_ID"}, 2)
          /\ ancestors \in ListsOver(MatchNames, MaxInputSize)

NextDetectors ==
    \E i \in 1..Len(registry) : last.op = "none" /\ Detect(registry[i])

SpecDetectors == InitDetectors /\ [][NextDetectors]_vars

\* SpecWalk: getAncestorProcessNames(maxDepth) called once in a drawn process,
\* over every drawn process table and every drawn depth
WalkOutcomes ==
    PsOutcomes
    \cup {PsPrints("  2"), PsPrints("copilot"), PsPrints("2copilot")}
    \cup {PsPrints(PsLine(0, comm)) : comm \in PsComms}

WalkProcs ==
    [platform : {"linux"}, ppid : 0..MaxPid, ps : [Pids -> WalkOutcomes]]
    \cup [platform : {"win32"}, ppid : 0..MaxPid, ps : {[pid \in Pids |-> PsThrows]}]

MaxDepths == {-1, 0, 1, 2, DefaultMaxDepth}

InitWalk ==
    /\ InitModule
    /\ proc \in WalkProcs
    /\ env = <<>>
    /\ ancestors = getAncestorProcessNames(proc, DefaultMaxDepth).names

NextWalk ==
    \E maxDepth \in MaxDepths : last.op = "none" /\ GetAncestorProcessNames(maxDepth)

SpecWalk == InitWalk /\ [][NextWalk]_vars

\* SpecLoop: the loop of getAncestorProcessNames taken one iteration at a
\* time, entered by the host program or by a public operation's detectors.
\* The host program need not call anything; once inside a call, the runtime
\* runs the synchronous code on and execFileSync returns or throws within its
\* timeout, so an iteration or a return that can be taken is taken.
LoopOutcomes ==
    {PsThrows} \cup {PsPrints(PsLine(pp, "zsh")) : pp \in 1..MaxPid}

LoopProcs ==
    [platform : {"linux"}, ppid : 1..MaxPid, ps : [Pids -> LoopOutcomes]]
    \cup [platform : {"win32"}, ppid : 1..MaxPid, ps : {[pid \in Pids |-> PsThrows]}]

\* every text a drawn ps lookup prints
PsTexts == {out.text : out \in (WalkOutcomes \cup LoopOutcomes) \ {PsThrows}}

\* what the loop body reads out of each text: the trimmed output, the match of
\* the regular expression, parseInt(ppidStr, 10) and commStr.trim()
psRead ==
    [t \in PsTexts |->
        [output |-> trim(t),
         match |-> regexExec(trim(t)),
         parentPid |-> parseInt(regexExec(trim(t)).ppidStr),
         comm |-> trim(regexExec(trim(t)).commStr)]]

\* The loop of getAncestorProcessNames one iteration at a time. st holds the
\* loop's variables: names, pid, i, the ps lookups made so far, and whether a
\* break was taken.
loopContinues(st, maxDepth) == ~st.broke /\ st.i < maxDepth

\* the end of the body, after the regular expression has run, and the i++
bodyParsed(st, read) ==
    IF ~read.match.matched
    THEN [st EXCEPT !.broke = TRUE]
    ELSE [st EXCEPT !.names = Append(@, read.comm),
                    !.pid = read.parentPid,
                    !.i = @ + 1]

\* the try/catch once execFileSync has returned or thrown
bodyAfterLookup(st, out) ==
    IF out.kind = "throws"
    THEN [st EXCEPT !.broke = TRUE]
    ELSE IF psRead[out.text].output = ""
    THEN [st EXCEPT !.broke = TRUE]
    ELSE bodyParsed(st, psRead[out.text])

\* the loop body with an execFileSync that has no timeout: where the bounded
\* call throws, this one has not returned
bodyWithoutTimeout(ps, st) ==
    IF st.pid <= 1
    THEN [st EXCEPT !.broke = TRUE]
    ELSE IF execFileSync(ps, st.pid).kind = "throws"
    THEN st
    ELSE bodyAfterLookup([st EXCEPT !.lookups = @ + 1], execFileSync(ps, st.pid))

\* one pass through the loop body
body(ps, st) ==
    IF st.pid <= 1
    THEN [st EXCEPT !.broke = TRUE]
    ELSE bodyAfterLookup([st EXCEPT !.lookups = @ + 1], execFileSync(ps, st.pid))

\* the loop's variables on entry
loopEntry(p) ==
    [names |-> <<>>, pid |-> p.ppid, i |-> 0, lookups |-> 0, broke |-> FALSE]

\* what Call(op, FALSE, tool, r) will store in the cache slot and show, for an
\* operation that is still waiting for its oracle invocations
Pending(op, tool, r) ==
    [cache |-> IF r.walks > 0 /\ oracleThrows THEN cachedResult ELSE r.cache,
     last |-> IF r.walks > 0 /\ oracleThrows
              THEN [NoCall(op) EXCEPT !.tool = tool, !.before = cachedResult,
                                      !.threw = TRUE]
              ELSE Observation(op, FALSE, tool, cachedResult, r),
     walks |-> r.walks]

\* nothing is waiting: the host program called getAncestorProcessNames itself
NoPending == [cache |-> Undefined, last |-> NoCall("none"), walks |-> 1]

\* getAncestorProcessNames(maxDepth) is inside its loop with variables st;
\* caller is the operation that is waiting for it, done the number of oracle
\* invocations that operation has already completed, pending what it will
\* return after the last one
Walking(caller, maxDepth, done, pending, st) ==
    [NoCall("walking") EXCEPT
        !.ret = [kind |-> "loop", caller |-> caller, maxDepth |-> maxDepth,
                 done |-> done, pending |-> pending,
                 names |-> st.names, pid |-> st.pid, i |-> st.i,
                 broke |-> st.broke],
        !.walks = st.lookups]

\* the loop's variables of the walk in progress
LoopState ==
    [names |-> last.ret.names, pid |-> last.ret.pid, i |-> last.ret.i,
     lookups |-> last.walks, broke |-> last.ret.broke]

\* what the public operation op computes in the current state
Computed(op, tool) ==
    CASE op = "whichAgenticTui" ->
            whichAgenticTui(cachedResult, registry, env, stableOracle(ancestors), FALSE)
      [] op = "isAgenticTui" ->
            isAgenticTui(cachedResult, registry, env, stableOracle(ancestors), FALSE)
      [] op = "isSpecificAgenticTui" ->
            isSpecificAgenticTui(tool, cachedResult, registry, env,
                                 stableOracle(ancestors), FALSE)

\* the host program calls getAncestorProcessNames(maxDepth): on win32 it
\* returns at once, elsewhere it enters the loop
EnterWalk(maxDepth) ==
    /\ loaded = "ok"
    /\ last.op = "none"
    /\ last' = IF proc.platform = "win32"
               THEN WalkObservation(maxDepth,
                        [names |-> <<>>, lookups |-> 0, threw |-> FALSE])
               ELSE Walking("getAncestorProcessNames", maxDepth, 0, NoPending,
                            loopEntry(proc))
    /\ UNCHANGED <<registry, loaded, env, ancestors, cachedResult, proc>>

\* the host program calls a public operation: it returns at once when its
\* detectors never ask for the ancestors (or on win32, where each oracle call
\* returns at once), otherwise its first oracle invocation enters the loop
EnterOperation(op, tool) ==
    /\ loaded = "ok"
    /\ last.op = "none"
    /\ IF Computed(op, tool).walks = 0 \/ proc.platform = "win32"
       THEN Call(op, FALSE, tool, Computed(op, tool))
       ELSE /\ last' = Walking(op, DefaultMaxDepth, 0,
                               Pending(op, tool, Computed(op, tool)),
                               loopEntry(proc))
            /\ UNCHANGED <<registry, loaded, env, ancestors, cachedResult, proc>>

\* one iteration of the loop
LoopBody ==
    /\ last.op = "walking"
    /\ loopContinues(LoopState, last.ret.maxDepth)
    /\ last' = Walking(last.ret.caller, last.ret.maxDepth, last.ret.done,
                       last.ret.pending, body(proc.ps, LoopState))
    /\ UNCHANGED <<registry, loaded, env, ancestors, cachedResult, proc>>

\* the loop has ended and `return names` hands the names to the host program
ReturnNames ==
    /\ last.op = "walking"
    /\ ~loopContinues(LoopState, last.ret.maxDepth)
    /\ last.ret.caller = "getAncestorProcessNames"
    /\ last' = WalkObservation(last.ret.maxDepth,
                    [names |-> last.ret.names, lookups |-> last.walks,
                     threw |-> FALSE])
    /\ UNCHANGED <<registry, loaded, env, ancestors, cachedResult, proc>>

\* the loop has ended inside a public operation whose detectors ask for the
\* ancestors again: the next oracle invocation enters the loop
NextOracleCall ==
    /\ last.op = "walking"
    /\ ~loopContinues(LoopState, last.ret.maxDepth)
    /\ last.ret.caller # "getAncestorProcessNames"
    /\ last.ret.done + 1 < last.ret.pending.walks
    /\ last' = Walking(last.ret.caller, DefaultMaxDepth, last.ret.done + 1,
                       last.ret.pending, loopEntry(proc))
    /\ UNCHANGED <<registry, loaded, env, ancestors, cachedResult, proc>>

\* the loop has ended inside a public operation for the last time: the
\* operation stores and returns what it computed
OperationReturns ==
    /\ last.op = "walking"
    /\ ~loopContinues(LoopState, last.ret.maxDepth)
    /\ last.ret.caller # "getAncestorProcessNames"
    /\ last.ret.done + 1 >= last.ret.pending.walks
    /\ cachedResult' = last.ret.pending.cache
    /\ last' = last.ret.pending.last
    /\ UNCHANGED <<registry, loaded, env, ancestors, proc>>

InitLoop ==
    /\ InitModule
    /\ proc \in LoopProcs
    /\ env \in EnvsOver({"Q_TERM"}, 1)
    /\ ancestors = getAncestorProcessNames(proc, DefaultMaxDepth).names

NextLoop ==
    \/ \E maxDepth \in MaxDepths : EnterWalk(maxDepth)
    \/ EnterOperation("whichAgenticTui", "")
    \/ EnterOperation("isAgenticTui", "")
    \/ \E tool \in PsTools : EnterOperation("isSpecificAgenticTui", tool)
    \/ LoopBody
    \/ ReturnNames
    \/ NextOracleCall
    \/ OperationReturns

SpecLoop ==
    /\ InitLoop
    /\ [][NextLoop]_vars
    /\ WF_vars(LoopBody)
    /\ WF_vars(ReturnNames)
    /\ WF_vars(NextOracleCall)
    /\ WF_vars(OperationReturns)

----------------------------------------------------------------------------
(* Properties *)

PublicOps == {"isAgenticTui", "whichAgenticTui", "isSpecificAgenticTui"}

\* an ancestor entry equal to "copilot" or ending in "/copilot"
CopilotMatch(name) == name = "copilot" \/ endsWith(name, "/copilot")

\* an ancestor entry equal to "kiro-cli" or "q" or ending in "/kiro-cli" or "/q"
KiroMatch(name) ==
    \/ name = "kiro-cli" \/ name = "q"
    \/ endsWith(name, "/kiro-cli") \/ endsWith(name, "/q")

\* the registry order the claims name, by detector
ClaimedOrder ==
    <<"detectClaudeCode", "detectCursorAgent", "detectGeminiCli", "detectAider",
      "detectCodex", "detectCline", "detectGitHubCopilotCli", "detectKiroCli",
      "detectOpencode">>

\* what the i-th detector of the claimed order returns in the current state
ResultOf(i) == detect(ClaimedOrder[i], env, ancestors).result

FirstHigh ==
    CHOOSE i \in 1..Len(ClaimedOrder) :
        isHigh(ResultOf(i)) /\ \A j \in 1..(i - 1) : ~isHigh(ResultOf(j))

FirstAny ==
    CHOOSE i \in 1..Len(ClaimedOrder) :
        ResultOf(i) # Null /\ \A j \in 1..(i - 1) : ResultOf(j) = Null

ExpectedResolution ==
    IF \E i \in 1..Len(ClaimedOrder) : isHigh(ResultOf(i))
    THEN ResultOf(FirstHigh)
    ELSE IF \E i \in 1..Len(ClaimedOrder) : ResultOf(i) # Null
    THEN ResultOf(FirstAny)
    ELSE Null

\* C1: a fresh whichAgenticTui returns the result of the first detector in
\* registry order whose result is high; failing that, of the first detector
\* that returns any result; failing that, null.
C1_FirstHighElseFirstAny ==
    last.op = "whichAgenticTui" => last.ret = ExpectedResolution

\* C1 witness: a later detector's high result was returned although an
\* earlier-registered detector had a medium result.
C1_Witness ==
    /\ last.op = "whichAgenticTui"
    /\ last.ret # Null
    /\ last.ret.tool = "cursor-agent"
    /\ last.ret.confidence = "high"
    /\ detectClaudeCode(env) # Null

AlwaysWalksRegistry ==
    [i \in 1..Len(detectors) |->
        IF detectors[i] = "detectGitHubCopilotCli"
        THEN "detectGitHubCopilotCliAlwaysWalks"
        ELSE detectors[i]]

\* C4: gating the walk on Q_TERM preserves outcomes: the gated Copilot detector
\* returns what the always-walking detector returns, and a fresh
\* whichAgenticTui returns what it would return built on the always-walking
\* detector.
C4_GatingPreservesOutcome ==
    last.op = "whichAgenticTui" =>
        /\ detectGitHubCopilotCli(env, ancestors).result
              = detectGitHubCopilotCliAlwaysWalks(env, ancestors).result
        /\ last.ret = freshDetection(AlwaysWalksRegistry, env,
                                     stableOracle(ancestors)).result

\* C5: with Q_TERM absent neither disambiguating detector invokes
\* getAncestorProcessNames, and a call of any of the three operations makes no
\* oracle invocation, whatever else is set.
C5_NoWalkWithoutQTerm ==
    ~Has(env, "Q_TERM") =>
        /\ detectGitHubCopilotCli(env, ancestors).walks = 0
        /\ detectKiroCli(env, ancestors).walks = 0
        /\ last.op \in PublicOps => last.walks = 0

\* C5 witness: a full evaluation ran both disambiguating detectors with
\* QTERM_SESSION_ID set, Q_TERM absent and a copilot ancestor present.
C5_Witness ==
    /\ ~Has(env, "Q_TERM")
    /\ Has(env, "QTERM_SESSION_ID")
    /\ \E i \in 1..Len(ancestors) : CopilotMatch(ancestors[i])
    /\ last.op \in PublicOps
    /\ \E n \in 1..Len(last.invoked) : last.invoked[n] = "detectGitHubCopilotCli"
    /\ \E n \in 1..Len(last.invoked) : last.invoked[n] = "detectKiroCli"

\* C6: the Copilot detector returns high whenever the ancestor list contains a
\* copilot match, whether or not Q_TERM is set, and "Q_TERM=<value>" is among
\* the signals iff Q_TERM is present.
C6_CopilotHighWithoutQTerm ==
    (/\ last.op = "whichAgenticTui"
     /\ \E i \in 1..Len(ancestors) : CopilotMatch(ancestors[i]))
    =>
    /\ detectGitHubCopilotCli(env, ancestors).result # Null
    /\ detectGitHubCopilotCli(env, ancestors).result.confidence = "high"
    /\ Has(env, "Q_TERM") =>
          \E n \in 1..Len(detectGitHubCopilotCli(env, ancestors).result.signals) :
              detectGitHubCopilotCli(env, ancestors).result.signals[n]
                  = "Q_TERM=" \o env["Q_TERM"]
    /\ ~Has(env, "Q_TERM") =>
          \A n \in 1..Len(detectGitHubCopilotCli(env, ancestors).result.signals) :
              SubSeq(detectGitHubCopilotCli(env, ancestors).result.signals[n], 1, 7)
                  # "Q_TERM="

\* C7: with a copilot entry among the ancestors and no recognised variable set,
\* isAgenticTui returns true, whichAgenticTui returns github-copilot-cli at
\* medium with the signal "ancestor process: <name>", and
\* isSpecificAgenticTui("github-copilot-cli") is true.
C7_CopilotMediumFromAncestorAlone ==
    (/\ DOMAIN env = {}
     /\ \E i \in 1..Len(ancestors) : CopilotMatch(ancestors[i]))
    =>
    /\ last.op = "isAgenticTui" => last.answer = TRUE
    /\ last.op = "whichAgenticTui" =>
          /\ last.ret # Null
          /\ last.ret.tool = "github-copilot-cli"
          /\ last.ret.confidence = "medium"
          /\ \E i \in 1..Len(ancestors) :
                /\ CopilotMatch(ancestors[i])
                /\ \E n \in 1..Len(last.ret.signals) :
                      last.ret.signals[n] = "ancestor process: " \o ancestors[i]
    /\ (last.op = "isSpecificAgenticTui" /\ last.tool = "github-copilot-cli") =>
          last.answer = TRUE

\* the first detectGitHubCopilotCli entry comes before every detectKiroCli entry
CopilotBeforeKiro(reg) ==
    \E i \in 1..Len(reg) :
        /\ reg[i] = "detectGitHubCopilotCli"
        /\ \A j \in 1..i : reg[j] # "detectKiroCli"

BothPresent(reg) ==
    /\ \E i \in 1..Len(reg) : reg[i] = "detectGitHubCopilotCli"
    /\ \E i \in 1..Len(reg) : reg[i] = "detectKiroCli"

\* C8: module initialisation throws iff both detectors are present and the
\* Copilot detector is not at a strictly smaller index than the Kiro detector;
\* the shipped registry loads, and no public operation runs on a registry in
\* which Kiro precedes Copilot.
C8_OrderingGuard ==
    /\ loaded # "pending" =>
          (loaded = "threw" <=>
              (BothPresent(registry) /\ ~CopilotBeforeKiro(registry)))
    /\ (registry = ClaimedOrder /\ loaded # "pending") => loaded = "ok"
    /\ last.op \in PublicOps =>
          ~(BothPresent(registry) /\ ~CopilotBeforeKiro(registry))

\* C8 witness: initialisation threw on a three-entry registry holding both
\* detectors.
C8_Witness ==
    /\ loaded = "threw"
    /\ Len(registry) = 3
    /\ registry[1] = "detectKiroCli"
    /\ registry[3] = "detectGitHubCopilotCli"

\* C9: in every state isAgenticTui(o) returns true iff whichAgenticTui(o) in
\* that state returns non-null, isSpecificAgenticTui(t, o) returns true iff
\* that result is non-null with tool t, and both leave the cache slot as
\* whichAgenticTui(o) would; a cached result is the one they report.
C9_QueriesAgreeWithWhich ==
    [][
        /\ last'.op = "isAgenticTui" =>
              /\ last'.answer = (whichAgenticTui(cachedResult, registry, env,
                                  stableOracle(ancestors), last'.force).ret # Null)
              /\ cachedResult' = whichAgenticTui(cachedResult, registry, env,
                                  stableOracle(ancestors), last'.force).cache
              /\ (cachedResult # Undefined /\ ~last'.force) =>
                    last'.answer = (cachedResult # Null)
        /\ last'.op = "isSpecificAgenticTui" =>
              /\ last'.answer =
                    (/\ whichAgenticTui(cachedResult, registry, env,
                            stableOracle(ancestors), last'.force).ret # Null
                     /\ whichAgenticTui(cachedResult, registry, env,
                            stableOracle(ancestors), last'.force).ret.tool = last'.tool)
              /\ cachedResult' = whichAgenticTui(cachedResult, registry, env,
                                  stableOracle(ancestors), last'.force).cache
              /\ (cachedResult # Undefined /\ ~last'.force) =>
                    last'.answer = (cachedResult # Null /\ cachedResult.tool = last'.tool)
    ]_vars

\* C9 witness: isSpecificAgenticTui answered true from a result another call
\* had cached, in an environment where a fresh detection finds nothing.
C9_Witness ==
    /\ last.op = "isSpecificAgenticTui"
    /\ last.answer = TRUE
    /\ ~last.force
    /\ last.invoked = <<>>
    /\ freshDetection(registry, env, stableOracle(ancestors)).result = Null

\* C10: while the cache holds a stored result (null included), a call without
\* force returns it, invokes no detector and no oracle and leaves the cache
\* unchanged, whatever the environment and ancestors are by then; only
\* clearCache or a forced call changes the slot.
C10_CacheShortCircuit ==
    [][
        /\ (cachedResult # Undefined /\ last'.op \in PublicOps /\ ~last'.force) =>
              /\ cachedResult' = cachedResult
              /\ last'.invoked = <<>>
              /\ last'.walks = 0
              /\ last'.op = "whichAgenticTui" => last'.ret = cachedResult
              /\ last'.op = "isAgenticTui" => last'.answer = (cachedResult # Null)
              /\ last'.op = "isSpecificAgenticTui" =>
                    last'.answer = (cachedResult # Null /\ cachedResult.tool = last'.tool)
        /\ (cachedResult # Undefined /\ cachedResult' # cachedResult) =>
              \/ last'.op = "clearCache"
              \/ last'.op \in PublicOps /\ last'.force
    ]_vars

\* C10 witness: a stored null was returned without any detector running, in an
\* environment where a fresh detection would find a tool.
C10_Witness ==
    /\ cachedResult = Null
    /\ last.op = "whichAgenticTui"
    /\ ~last.force
    /\ last.invoked = <<>>
    /\ last.ret = Null
    /\ freshDetection(registry, env, stableOracle(ancestors)).result # Null

\* what an operation returned, in one value: the result for whichAgenticTui,
\* the boolean for the two predicates
Returned(l) == IF l.op = "whichAgenticTui" THEN l.ret ELSE l.answer

\* what operation op, asked about tool, returns when whichAgenticTui gives r
ReturnFor(op, tool, r) ==
    CASE op = "whichAgenticTui" -> r
      [] op = "isAgenticTui" -> r # Null
      [] op = "isSpecificAgenticTui" -> (r # Null /\ r.tool = tool)

\* the observation l2 and cache slot c2 are those of a fresh evaluation f
IsFreshOutcome(f, l2, c2) ==
    /\ c2 = f.result
    /\ l2.invoked = f.invoked
    /\ l2.invoked # <<>>
    /\ l2.walks = f.walks
    /\ Returned(l2) = ReturnFor(l2.op, l2.tool, f.result)

\* C11: a call with force: true evaluates afresh against the current
\* environment and ancestors whatever the cache holds, its result (null
\* included) becomes the cached value, and a non-forced call that follows
\* returns exactly that result.
C11_ForceRefreshes ==
    [][
        /\ (last'.op \in PublicOps /\ last'.force) =>
              IsFreshOutcome(freshDetection(registry, env, stableOracle(ancestors)),
                             last', cachedResult')
        /\ (/\ last.op \in PublicOps /\ last.force
            /\ last'.op \in PublicOps /\ ~last'.force) =>
              /\ last'.invoked = <<>>
              /\ Returned(last') = ReturnFor(last'.op, last'.tool, cachedResult)
              /\ (last.op = "whichAgenticTui" /\ last'.op = "whichAgenticTui") =>
                    last'.ret = last.ret
    ]_vars

\* C11 witness: a forced call found a stored result, evaluated afresh and
\* stored null in its place.
C11_Witness ==
    /\ last.op \in PublicOps
    /\ last.force
    /\ last.before # Undefined
    /\ last.before # Null
    /\ last.invoked # <<>>
    /\ cachedResult = Null

\* C12: clearCache changes nothing but the cache slot, which it resets to
\* not-yet-computed (also when it already is); from that state a call of any
\* of the three operations evaluates afresh even without force, whereas a
\* stored null is returned without evaluating.
C12_ClearCacheResets ==
    [][
        /\ last'.op = "clearCache" =>
              /\ cachedResult' = Undefined
              /\ UNCHANGED <<registry, loaded, env, ancestors, proc>>
        /\ (last.op = "clearCache" /\ last'.op \in PublicOps) =>
              IsFreshOutcome(freshDetection(registry, env, stableOracle(ancestors)),
                             last', cachedResult')
        /\ (cachedResult = Undefined /\ last'.op \in PublicOps) =>
              last'.invoked # <<>>
        /\ (cachedResult = Null /\ last'.op \in PublicOps /\ ~last'.force) =>
              last'.invoked = <<>>
    ]_vars

\* C12 witness: clearCache has just reset a slot that held a stored null.
C12_Witness ==
    /\ last.op = "clearCache"
    /\ last.before = Null
    /\ cachedResult = Undefined

\* the lines of ps that name a parent and a command
ReadableLines ==
    {[text |-> PsLine(pp, comm), parent |-> pp, comm |-> comm] :
        pp \in 0..MaxPid, comm \in PsComms}

\* ps answered the lookup of pid with a line naming a parent and a command
Readable(pid) ==
    /\ pid \in DOMAIN proc.ps
    /\ proc.ps[pid].kind = "prints"
    /\ \E l \in ReadableLines : l.text = proc.ps[pid].text

LineOf(pid) == CHOOSE l \in ReadableLines : l.text = proc.ps[pid].text

\* the command names along the parent chain from pid, cut at the first lookup
\* that fails or cannot be read, at a parent pid <= 1 and after n names
RECURSIVE ReadableChain(_, _)
ReadableChain(pid, n) ==
    IF n <= 0 \/ pid <= 1 \/ ~Readable(pid)
    THEN <<>>
    ELSE <<LineOf(pid).comm>> \o ReadableChain(LineOf(pid).parent, n - 1)

\* the ancestor list truncated where the process lookups stop answering
TruncatedAncestors ==
    IF proc.platform = "win32" THEN <<>> ELSE ReadableChain(proc.ppid, DefaultMaxDepth)

\* C13: whatever ps does (fails, is missing, times out, prints nothing, prints
\* something unreadable) and on an unsupported platform, no exception escapes
\* the oracle, each of the three operations returns a value, and that value is
\* the one detection gives on the ancestor list truncated at the failing
\* lookup (empty if the first lookup fails).
C13_NeverThrows ==
    /\ ~getAncestorProcessNames(proc, DefaultMaxDepth).threw
    /\ ancestors = TruncatedAncestors
    /\ last.op \in PublicOps =>
          /\ ~last.threw
          /\ Returned(last) =
                ReturnFor(last.op, last.tool,
                          freshDetection(registry, env,
                                         stableOracle(ancestors)).result)

\* C13 witness: with Q_TERM set, the lookup of the parent named copilot and
\* the lookup of the grandparent failed; the call returned github-copilot-cli
\* from the one name collected.
C13_Witness ==
    /\ proc.platform = "linux"
    /\ proc.ppid = 2
    /\ proc.ps[2] = PsPrints(PsLine(3, "copilot"))
    /\ proc.ps[3] = PsThrows
    /\ Has(env, "Q_TERM")
    /\ last.op = "whichAgenticTui"
    /\ last.walks > 0
    /\ ~last.threw
    /\ last.ret # Null
    /\ last.ret.tool = "github-copilot-cli"

\* a DetectionResult with at least one signal and a confidence of high or medium
WellFormed(r) ==
    /\ Len(r.signals) > 0
    /\ r.confidence \in {"high", "medium"}

\* C14: every result any registered detector returns in the current
\* environment and ancestors, and every result whichAgenticTui returns or
\* stores, has a non-empty signals list and confidence high or medium.
C14_SignalsNeverEmpty ==
    /\ \A i \in 1..Len(registry) :
          detect(registry[i], env, ancestors).result # Null =>
              WellFormed(detect(registry[i], env, ancestors).result)
    /\ (last.op = "whichAgenticTui" /\ last.ret # Null) => WellFormed(last.ret)
    /\ (cachedResult # Undefined /\ cachedResult # Null) => WellFormed(cachedResult)

\* C14 witness: a result whose only signal comes from a variable set to the
\* empty string.
C14_Witness ==
    /\ DOMAIN env = {"CLAUDE_CODE_ENTRYPOINT"}
    /\ env["CLAUDE_CODE_ENTRYPOINT"] = ""
    /\ last.op = "whichAgenticTui"
    /\ last.ret # Null
    /\ last.ret.signals = <<"CLAUDE_CODE_ENTRYPOINT=">>

ExactPrimary ==
    [CLAUDECODE |-> <<"1", "claude-code">>,
     CURSOR_AGENT |-> <<"1", "cursor-agent">>,
     GEMINI_CLI |-> <<"1", "gemini-cli">>,
     AIDER |-> <<"1", "aider">>,
     OPENCODE |-> <<"1", "opencode">>,
     CLINE_ACTIVE |-> <<"true", "cline">>,
     OR_APP_NAME |-> <<"Aider", "aider">>]

\* strings similar to the literals
NearMisses ==
    {"true", "TRUE", "True", "2", "", "1", "01", "1 ", "aider", "AIDER", "Aider "}

\* r is the tool at confidence high
HighFor(r, tool) == r # Null /\ r.tool = tool /\ r.confidence = "high"

\* C16: with an exact-value primary variable set to a string other than its
\* literal and nothing else set, whichAgenticTui does not return that
\* variable's tool at high; this for the drawn environments and, from each
\* initial state with nothing set, for every near-miss string put into each
\* such variable.
C16_NearMissNotHigh ==
    /\ \A k \in DOMAIN ExactPrimary :
          (DOMAIN env = {k} /\ env[k] # ExactPrimary[k][1] /\ last.op = "whichAgenticTui")
              => ~HighFor(last.ret, ExactPrimary[k][2])
    /\ (DOMAIN env = {} /\ last.op = "none") =>
          \A k \in DOMAIN ExactPrimary : \A v \in NearMisses \ {ExactPrimary[k][1]} :
              ~HighFor(freshDetection(registry, [x \in {k} |-> v],
                                      stableOracle(ancestors)).result,
                       ExactPrimary[k][2])

\* C16 witness: CLINE_ACTIVE=1 alone, and whichAgenticTui returned null.
C16_Witness ==
    /\ DOMAIN env = {"CLINE_ACTIVE"}
    /\ env["CLINE_ACTIVE"] = "1"
    /\ last.op = "whichAgenticTui"
    /\ last.ret = Null

\* the detector that reads each exact-value primary variable
PrimaryDetector ==
    [CLAUDECODE |-> "detectClaudeCode",
     CURSOR_AGENT |-> "detectCursorAgent",
     GEMINI_CLI |-> "detectGeminiCli",
     AIDER |-> "detectAider",
     OPENCODE |-> "detectOpencode",
     CLINE_ACTIVE |-> "detectCline",
     OR_APP_NAME |-> "detectAider"]

\* r is k's tool at high with the signal "k=<literal>"
PrimaryResult(r, k) ==
    /\ HighFor(r, ExactPrimary[k][2])
    /\ \E n \in 1..Len(r.signals) : r.signals[n] = k \o "=" \o ExactPrimary[k][1]

\* no detector registered before d returns high in the current state
NoEarlierHigh(d) ==
    \A j \in 1..Len(registry) :
        (\E i \in (j + 1)..Len(registry) : registry[i] = d) =>
            (registry[j] = d \/ ~isHigh(detect(registry[j], env, ancestors).result))

\* C17 as stated: whenever an exact-value primary variable holds its literal,
\* a fresh whichAgenticTui returns that variable's tool at high with the signal
\* "KEY=value"; with only CLAUDECODE=1 set the result is exactly
\* {claude-code, high, ["CLAUDECODE=1"]}.
C17_PrimaryLiteralAlwaysWins ==
    /\ \A k \in DOMAIN ExactPrimary :
          (Is(env, k, ExactPrimary[k][1]) /\ last.op = "whichAgenticTui")
              => PrimaryResult(last.ret, k)
    /\ (DOMAIN env = {"CLAUDECODE"} /\ env["CLAUDECODE"] = "1"
            /\ last.op = "whichAgenticTui")
          => last.ret = DetectionResult("claude-code", "high", <<"CLAUDECODE=1">>)

\* C17 amended: whenever an exact-value primary variable holds its literal and
\* no detector registered before that variable's detector returns high (and,
\* for OR_APP_NAME, AIDER is not "1"), a fresh whichAgenticTui returns that
\* variable's tool at high with the signal "KEY=value"; with only CLAUDECODE=1
\* set the result is exactly {claude-code, high, ["CLAUDECODE=1"]}.
C17_PrimaryLiteralWinsUnlessEarlierHigh ==
    /\ \A k \in DOMAIN ExactPrimary :
          (/\ Is(env, k, ExactPrimary[k][1])
           /\ NoEarlierHigh(PrimaryDetector[k])
           /\ (k = "OR_APP_NAME" => ~Is(env, "AIDER", "1"))
           /\ last.op = "whichAgenticTui")
              => PrimaryResult(last.ret, k)
    /\ (DOMAIN env = {"CLAUDECODE"} /\ env["CLAUDECODE"] = "1"
            /\ last.op = "whichAgenticTui")
          => last.ret = DetectionResult("claude-code", "high", <<"CLAUDECODE=1">>)

\* C17 witness: OR_APP_NAME=Aider won at high although Claude Code, registered
\* earlier, had a medium result.
C17_Witness ==
    /\ Is(env, "OR_APP_NAME", "Aider")
    /\ Has(env, "CLAUDE_CODE_ENTRYPOINT")
    /\ ~Is(env, "CLAUDECODE", "1")
    /\ last.op = "whichAgenticTui"
    /\ PrimaryResult(last.ret, "OR_APP_NAME")

\* C18: with none of the recognised variables set and an empty ancestor list,
\* whichAgenticTui returns null, isAgenticTui returns false and
\* isSpecificAgenticTui(t) returns false for every tool identifier t.
C18_NothingSetNothingDetected ==
    (DOMAIN env = {} /\ ancestors = <<>>) =>
        /\ last.op = "whichAgenticTui" => last.ret = Null
        /\ last.op = "isAgenticTui" => last.answer = FALSE
        /\ last.op = "isSpecificAgenticTui" => last.answer = FALSE
        /\ \A t \in AgenticTui :
              ~isSpecificAgenticTui(t, Undefined, registry, env,
                                    stableOracle(ancestors), FALSE).ret

\* C18 witness: isSpecificAgenticTui("opencode") was asked with nothing set
\* and no ancestors, and answered false.
C18_Witness ==
    /\ DOMAIN env = {}
    /\ ancestors = <<>>
    /\ last.op = "isSpecificAgenticTui"
    /\ last.tool = "opencode"
    /\ last.answer = FALSE

\* C19: a result whichAgenticTui returns from its second loop (reached after
\* the first loop ran every detector without a high result) has confidence
\* medium, also when the oracle answers differently from one invocation to
\* the next.
C19_SecondPassIsMedium ==
    (/\ last.op = "whichAgenticTui"
     /\ Len(last.invoked) > Len(registry)
     /\ last.ret # Null)
    => last.ret.confidence = "medium"

\* C20: when a fresh evaluation ends with a high result, the detectors it
\* invoked are exactly the registry entries up to the one that returned it, so
\* no later-registered detector ran; with github-copilot-cli at high,
\* detectKiroCli did not run.
C20_HighEndsEvaluation ==
    (/\ last.op \in PublicOps
     /\ last.invoked # <<>>
     /\ cachedResult # Undefined
     /\ isHigh(cachedResult))
    =>
    /\ \E i \in 1..Len(registry) :
          /\ last.invoked = SubSeq(registry, 1, i)
          /\ detect(registry[i], env, ancestors).result = cachedResult
    /\ cachedResult.tool = "github-copilot-cli" =>
          \A n \in 1..Len(last.invoked) : last.invoked[n] # "detectKiroCli"

\* C20 witness: github-copilot-cli was returned at high with a kiro-cli
\* ancestor also present, after the first seven detectors had run.
C20_Witness ==
    /\ Has(env, "Q_TERM")
    /\ \E i \in 1..Len(ancestors) : KiroMatch(ancestors[i])
    /\ last.op = "whichAgenticTui"
    /\ last.ret # Null
    /\ last.ret.tool = "github-copilot-cli"
    /\ last.invoked = SubSeq(registry, 1, 7)

\* the drawn names that are kiro-cli or q, bare or behind a path separator
KiroNames == {"kiro-cli", "/usr/bin/kiro-cli", "q", "/opt/q"}

\* the drawn names that are copilot, bare or behind a path separator
CopilotNames == {"copilot", "/usr/local/bin/copilot"}

\* the nearest entry of the ancestor list that is one of names
Nearest(names) ==
    ancestors[CHOOSE i \in 1..Len(ancestors) :
                /\ ancestors[i] \in names
                /\ \A j \in 1..(i - 1) : ancestors[j] \notin names]

\* an entry of the ancestor list is one of names
Among(names) == \E i \in 1..Len(ancestors) : ancestors[i] \in names

\* C21: detectKiroCli returns high iff Q_TERM is set and an ancestor entry is
\* kiro-cli or q, bare or as the last path component, and medium with the
\* Q_TERM signal alone otherwise; detectGitHubCopilotCli returns a result only
\* if an entry is copilot, bare or as the last path component; entries that
\* merely contain a name never match; the signal names the nearest matching
\* entry verbatim.
C21_ExactOrPathSuffix ==
    /\ last.op = "detectKiroCli" =>
          /\ isHigh(last.ret) <=> (Has(env, "Q_TERM") /\ Among(KiroNames))
          /\ (Has(env, "Q_TERM") /\ ~Among(KiroNames)) =>
                last.ret = DetectionResult("kiro-cli", "medium",
                                           <<"Q_TERM=" \o env["Q_TERM"]>>)
          /\ isHigh(last.ret) =>
                last.ret = DetectionResult("kiro-cli", "high",
                              <<"Q_TERM=" \o env["Q_TERM"],
                                "ancestor process: " \o Nearest(KiroNames)>>)
    /\ last.op = "detectGitHubCopilotCli" =>
          /\ last.ret # Null => Among(CopilotNames)
          /\ (Has(env, "Q_TERM") /\ Among(CopilotNames)) =>
                last.ret = DetectionResult("github-copilot-cli", "high",
                              <<"ancestor process: " \o Nearest(CopilotNames),
                                "Q_TERM=" \o env["Q_TERM"]>>)
    /\ \A n \in MatchNames :
          /\ isKiroAncestor(n) <=> n \in KiroNames
          /\ isCopilotAncestor(n) <=> n \in CopilotNames

\* C21 witness: detectKiroCli reported the path entry nearest to the process,
\* behind an entry that only contains a name and before a bare q.
C21_Witness ==
    /\ last.op = "detectKiroCli"
    /\ ancestors = <<"seq", "/usr/bin/kiro-cli", "q">>
    /\ last.ret # Null
    /\ last.ret.confidence = "high"
    /\ last.ret.signals[2] = "ancestor process: /usr/bin/kiro-cli"

\* C22: detectCodex returns codex at high with signals exactly
\* ["CODEX_SANDBOX=<value>"] whenever CODEX_SANDBOX is present, the empty
\* string included and whatever CODEX_THREAD_ID is; codex at medium with
\* ["CODEX_THREAD_ID=<value>"] when only CODEX_THREAD_ID is present; null
\* otherwise.
C22_CodexPresenceOnly ==
    last.op = "detectCodex" =>
        /\ Has(env, "CODEX_SANDBOX") =>
              last.ret = DetectionResult("codex", "high",
                            <<"CODEX_SANDBOX=" \o env["CODEX_SANDBOX"]>>)
        /\ (~Has(env, "CODEX_SANDBOX") /\ Has(env, "CODEX_THREAD_ID")) =>
              last.ret = DetectionResult("codex", "medium",
                            <<"CODEX_THREAD_ID=" \o env["CODEX_THREAD_ID"]>>)
        /\ (~Has(env, "CODEX_SANDBOX") /\ ~Has(env, "CODEX_THREAD_ID")) =>
              last.ret = Null

\* C22 witness: CODEX_SANDBOX present but empty next to CODEX_THREAD_ID.
C22_Witness ==
    /\ last.op = "detectCodex"
    /\ Is(env, "CODEX_SANDBOX", "")
    /\ Has(env, "CODEX_THREAD_ID")
    /\ last.ret # Null
    /\ last.ret.confidence = "high"
    /\ last.ret.signals = <<"CODEX_SANDBOX=">>

\* C23: detectAider returns aider at high with signals exactly ["AIDER=1"]
\* when AIDER is "1"; else, when OR_APP_NAME is "Aider", aider at high with
\* ["OR_APP_NAME=Aider"] followed by "OR_SITE_URL=https://aider.chat" iff
\* OR_SITE_URL is exactly that URL; else null, OR_SITE_URL or not.
C23_AiderAppName ==
    last.op = "detectAider" =>
        /\ Is(env, "AIDER", "1") =>
              last.ret = DetectionResult("aider", "high", <<"AIDER=1">>)
        /\ (~Is(env, "AIDER", "1") /\ Is(env, "OR_APP_NAME", "Aider")) =>
              /\ last.ret # Null
              /\ last.ret.tool = "aider"
              /\ last.ret.confidence = "high"
              /\ Is(env, "OR_SITE_URL", "https://aider.chat") =>
                    last.ret.signals =
                        <<"OR_APP_NAME=Aider", "OR_SITE_URL=https://aider.chat">>
              /\ ~Is(env, "OR_SITE_URL", "https://aider.chat") =>
                    last.ret.signals = <<"OR_APP_NAME=Aider">>
        /\ (~Is(env, "AIDER", "1") /\ ~Is(env, "OR_APP_NAME", "Aider")) =>
              last.ret = Null

\* C23 witness: OR_APP_NAME=Aider next to an OR_SITE_URL that differs from
\* the expected URL by a trailing slash.
C23_Witness ==
    /\ last.op = "detectAider"
    /\ Is(env, "OR_APP_NAME", "Aider")
    /\ Is(env, "OR_SITE_URL", "https://aider.chat/")
    /\ last.ret # Null
    /\ last.ret.signals = <<"OR_APP_NAME=Aider">>

\* the secondary signals of Claude Code matched in the current environment,
\* in the order entry point, path
ClaudeSecondarySignals ==
    (IF Has(env, "CLAUDE_CODE_ENTRYPOINT")
     THEN <<"CLAUDE_CODE_ENTRYPOINT=" \o env["CLAUDE_CODE_ENTRYPOINT"]>>
     ELSE <<>>)
    \o (IF Is(env, "CLAUDE_PATH", "/opt/claude-code/bin")
        THEN <<"CLAUDE_PATH contains \"claude-code\"">>
        ELSE <<>>)

\* C24: with CLAUDECODE not exactly "1", detectClaudeCode returns claude-code
\* at medium iff CLAUDE_CODE_ENTRYPOINT is present or CLAUDE_PATH contains
\* "claude-code", with every matched secondary signal in the order entry
\* point, path; null if neither matches. With only CLAUDE_CODE_ENTRYPOINT=cli
\* the result is {claude-code, medium, ["CLAUDE_CODE_ENTRYPOINT=cli"]}.
C24_ClaudeSecondary ==
    (last.op = "detectClaudeCode" /\ ~Is(env, "CLAUDECODE", "1")) =>
        /\ ClaudeSecondarySignals # <<>> =>
              last.ret = DetectionResult("claude-code", "medium",
                                         ClaudeSecondarySignals)
        /\ ClaudeSecondarySignals = <<>> => last.ret = Null
        /\ (DOMAIN env = {"CLAUDE_CODE_ENTRYPOINT"}
                /\ env["CLAUDE_CODE_ENTRYPOINT"] = "cli") =>
              last.ret = DetectionResult("claude-code", "medium",
                                         <<"CLAUDE_CODE_ENTRYPOINT=cli">>)

\* C24 witness: CLAUDECODE=true with both secondary signals matched.
C24_Witness ==
    /\ last.op = "detectClaudeCode"
    /\ Is(env, "CLAUDECODE", "true")
    /\ last.ret # Null
    /\ last.ret.confidence = "medium"
    /\ Len(last.ret.signals) = 2

\* a call of getAncestorProcessNames(maxDepth) has returned or thrown
Walked == last.op = "getAncestorProcessNames"

\* the number of loop iterations maxDepth allows
Allowed(maxDepth) == IF maxDepth <= 0 THEN 0 ELSE maxDepth

\* the parent chain from the current process never stops answering: it runs
\* into a cycle of readable lines, so it is longer than every depth drawn
EndlessChain ==
    /\ proc.platform = "linux"
    /\ Len(ReadableChain(proc.ppid, DefaultMaxDepth + 1)) = DefaultMaxDepth + 1

\* C25: getAncestorProcessNames(maxDepth) returns at most maxDepth names and
\* makes at most maxDepth process lookups whatever the length of the chain;
\* with maxDepth <= 0, negative included, it returns [] without any lookup;
\* on a chain longer than maxDepth it returns exactly maxDepth names after
\* maxDepth lookups; the default depth is 10.
C25_DepthBound ==
    /\ DefaultMaxDepth = 10
    /\ Len(ancestors) <= 10
    /\ EndlessChain => Len(ancestors) = 10
    /\ Walked =>
        /\ Len(last.ret.names) <= Allowed(last.ret.maxDepth)
        /\ last.walks <= Allowed(last.ret.maxDepth)
        /\ last.ret.maxDepth <= 0 => last.ret.names = <<>> /\ last.walks = 0
        /\ EndlessChain =>
            /\ Len(last.ret.names) = Allowed(last.ret.maxDepth)
            /\ last.walks = Allowed(last.ret.maxDepth)

\* C25 witness: a call with maxDepth 2 on a chain longer than ten processes
\* has returned two names after two lookups.
C25_Witness ==
    /\ Walked
    /\ EndlessChain
    /\ last.ret.maxDepth = 2
    /\ Len(last.ret.names) = 2
    /\ last.walks = 2

\* C26: getAncestorProcessNames never throws; when a lookup fails, times out,
\* prints nothing or only white space, or prints something that is not
\* "<digits> <name>", the names collected before it are returned unchanged
\* (none if it was the first lookup); on win32 the result is [] and no
\* lookup is made.
C26_PartialNeverThrows ==
    Walked =>
        /\ ~last.threw
        /\ proc.platform = "win32" => last.ret.names = <<>> /\ last.walks = 0
        /\ proc.platform # "win32" =>
            /\ last.ret.names = ReadableChain(proc.ppid, last.ret.maxDepth)
            /\ (proc.ppid > 1 /\ ~Readable(proc.ppid)) => last.ret.names = <<>>

\* C26 witness: the second lookup could not be read and the one name
\* collected before it was returned.
C26_Witness ==
    /\ Walked
    /\ proc.platform = "linux"
    /\ ~last.threw
    /\ Len(last.ret.names) = 1
    /\ last.walks = 2
    /\ Readable(proc.ppid)
    /\ LineOf(proc.ppid).parent > 1
    /\ ~Readable(LineOf(proc.ppid).parent)

\* the pid of the i-th process reached from the current process: its parent,
\* then the parent each line reports
RECURSIVE PidAt(_)
PidAt(i) == IF i = 1 THEN proc.ppid ELSE LineOf(PidAt(i - 1)).parent

\* the pids the call looked up: those of the names returned, and the one
\* after them when the walk went on to a lookup that gave no name
LookedUp ==
    {PidAt(i) : i \in 1..Len(last.ret.names)}
    \cup (IF last.walks > Len(last.ret.names)
          THEN {PidAt(Len(last.ret.names) + 1)}
          ELSE {})

\* C27: the walk starts at the parent of the current process: entry i of the
\* result is the command name of the i-th process reached by following the
\* parent pids; a process whose reported parent pid is <= 1 is recorded and
\* the walk stops there; pid 0 and pid 1 are never looked up; when the
\* current process's own parent pid is <= 1 the result is [] with no lookup.
C27_WalkOrder ==
    (Walked /\ proc.platform = "linux") =>
        /\ \A i \in 1..Len(last.ret.names) :
              /\ PidAt(i) > 1
              /\ Readable(PidAt(i))
              /\ last.ret.names[i] = LineOf(PidAt(i)).comm
        /\ last.walks \in {Len(last.ret.names), Len(last.ret.names) + 1}
        /\ \A pid \in LookedUp : pid > 1
        /\ \A i \in 1..Len(last.ret.names) :
              LineOf(PidAt(i)).parent <= 1 =>
                  /\ Len(last.ret.names) = i
                  /\ last.walks = i
        /\ proc.ppid <= 1 => last.ret.names = <<>> /\ last.walks = 0

\* C27 witness: the grandparent reports parent pid 1 and a command other than
\* the parent's; both names were returned in order after two lookups.
C27_Witness ==
    /\ Walked
    /\ proc.platform = "linux"
    /\ last.ret.maxDepth = DefaultMaxDepth
    /\ Len(last.ret.names) = 2
    /\ last.ret.names[1] # last.ret.names[2]
    /\ LineOf(PidAt(2)).parent = 1
    /\ last.walks = 2

\* an operation that was called has returned to the host program
ReturnedToHost == last.op \in PublicOps \cup {"getAncestorProcessNames"}

\* C28: getAncestorProcessNames always terminates, for every drawn maxDepth
\* and every behaviour of the ps lookups, tables whose parent pids form a
\* cycle included (the chain they give never ends), and it returns what the
\* loop taken as a whole returns; hence every public operation that is
\* waiting for it eventually returns.
C28_WalkTerminates ==
    /\ (last.op = "walking") ~> ReturnedToHost
    /\ [](Walked =>
            last = WalkObservation(last.ret.maxDepth,
                       getAncestorProcessNames(proc, last.ret.maxDepth)))

\* C28 witness: a public operation has returned after its fourth oracle
\* invocation walked ten times round a cycle of parent pids.
C28_Witness ==
    /\ last.op = "whichAgenticTui"
    /\ last.walks = WalksPerEvaluation
    /\ Len(ancestors) = DefaultMaxDepth
    /\ Cardinality(DOMAIN proc.ps) < DefaultMaxDepth

\* the nine identifiers the registered detectors report
RegisteredTools == AgenticTui \ {"unknown"}

\* the identifiers t for which a fresh isSpecificAgenticTui(t) is true
SpecificTools ==
    {t \in AgenticTui :
        isSpecificAgenticTui(t, Undefined, registry, env,
                             stableOracle(ancestors), FALSE).ret}

\* at most one identifier is in tools, it is a registered one, and agentic
\* tells whether there is one
OneOrNone(tools, agentic) ==
    /\ Cardinality(tools) <= 1
    /\ agentic <=> Cardinality(tools) = 1
    /\ tools \subseteq RegisteredTools

\* C29: for every environment and ancestor list at most one identifier t makes
\* isSpecificAgenticTui(t) true, and isAgenticTui() is true iff exactly one
\* does; the tool of a returned result is one of the nine identifiers a
\* detector is registered for, so never "unknown", and
\* isSpecificAgenticTui("unknown") is always false.
C29_OneRegisteredTool ==
    /\ Cardinality(RegisteredTools) = 9
    /\ Len(detectors) = 9
    /\ last.op = "none" =>
        OneOrNone(SpecificTools,
                  isAgenticTui(Undefined, registry, env,
                               stableOracle(ancestors), FALSE).ret)
    /\ (last.op = "whichAgenticTui" /\ last.ret # Null) =>
        last.ret.tool \in RegisteredTools
    /\ (last.op = "isSpecificAgenticTui" /\ last.answer) =>
        /\ last.tool \in RegisteredTools
        /\ freshDetection(registry, env, stableOracle(ancestors)).result # Null
        /\ last.tool = freshDetection(registry, env, stableOracle(ancestors)).result.tool
    /\ (last.op = "isSpecificAgenticTui" /\ last.tool = "unknown") => ~last.answer
    /\ last.op = "isAgenticTui" =>
        (last.answer <=>
            freshDetection(registry, env, stableOracle(ancestors)).result # Null)

\* C29 witness: with two tools' primary literals set, isSpecificAgenticTui
\* answered true for the one whichAgenticTui reports.
C29_Witness ==
    /\ Is(env, "CLAUDECODE", "1")
    /\ Is(env, "CURSOR_AGENT", "1")
    /\ last.op = "isSpecificAgenticTui"
    /\ last.tool = "claude-code"
    /\ last.answer

\* C30: whatever else the environment holds, when Q_TERM is set and the
\* ancestor list contains a copilot match, a fresh whichAgenticTui returns a
\* result whose tool is not kiro-cli, and isSpecificAgenticTui("kiro-cli") is
\* false, even when the list also holds "kiro-cli" or "q" before or after the
\* copilot entry, so that the Kiro detector on its own returns high.
C30_CopilotNeverKiro ==
    (/\ Has(env, "Q_TERM")
     /\ \E i \in 1..Len(ancestors) : CopilotMatch(ancestors[i]))
    =>
    /\ last.op = "whichAgenticTui" =>
          last.ret # Null /\ last.ret.tool # "kiro-cli"
    /\ (last.op = "isSpecificAgenticTui" /\ last.tool = "kiro-cli") => ~last.answer

\* C30 witness: "kiro-cli" is nearer than the copilot entry, the Kiro detector
\* on its own returns high, and whichAgenticTui returned github-copilot-cli.
C30_Witness ==
    /\ Has(env, "Q_TERM")
    /\ Len(ancestors) = 2
    /\ KiroMatch(ancestors[1])
    /\ CopilotMatch(ancestors[2])
    /\ isHigh(detectKiroCli(env, ancestors).result)
    /\ last.op = "whichAgenticTui"
    /\ last.ret # Null
    /\ last.ret.tool = "github-copilot-cli"

====
